---- MODULE Spec2Model ----
(***************************************************************************)
(* A model of build.webmaker.org's GitHub aggregation and caching layer:   *)
(*   src/server/models/github.js  (paginated fetch, Response Cache,        *)
(*                                 fan-out operations)                     *)
(*   src/server.js                (checkCache middleware, cache primer)    *)
(***************************************************************************)
EXTENDS Integers, Sequences, FiniteSets, TLC

(***************************************************************************)
(* Bounds of the model.                                                    *)
(***************************************************************************)
\* Longest array the upstream answers on one page.
MaxPageLen == 2
\* Last page number the upstream may answer with a non-empty array.
MaxPage == 2
\* Calls of githubJSON / getUserInfo the model follows.
MaxCalls == 4
\* Steps of the clock the model follows.
MaxTicks == 4
\* Most organisations or repositories a fan-out operation is called with.
MaxTargets == 2
\* Times the refresh timers fire, all resources together.
MaxFires == 1
\* Requests of outside readers the model follows.
MaxReads == 1
\* Views the route handlers compute, all resources together.
MaxGen == 2
\* Longest list of issues sortIssuesByPriority is called with.
MaxIssues == 3
\* Most teams of the organisation, and most members of a team.
MaxTeams == 2
MaxMembers == 2
\* Longest list of milestones the upstream answers.
MaxMilestones == 3
\* Calls of postIssueWithToken the model follows.
MaxPosts == 2

(***************************************************************************)
(* JavaScript values.  Every value has the same record shape so that any   *)
(* two of them can be compared.                                            *)
(*   kind    "undefined" | "null" | "array" | "object" | "error"          *)
(*   items   the elements of an array                                      *)
(*   message the message field of an object ("" when it has none)          *)
(*   tag     what else tells two objects apart                             *)
(***************************************************************************)
Undefined == [kind |-> "undefined", items |-> <<>>, message |-> "", tag |-> ""]
Null == [kind |-> "null", items |-> <<>>, message |-> "", tag |-> ""]
Arr(s) == [kind |-> "array", items |-> s, message |-> "", tag |-> ""]
Obj(m, t) == [kind |-> "object", items |-> <<>>, message |-> m, tag |-> t]
TransportError == [kind |-> "error", items |-> <<>>, message |-> "", tag |-> "ECONNRESET"]

\* Records of a listing: name stands for the identity field (login, title,
\* name, full_name), id tells two records of one identity apart.
Items == {[name |-> "a", id |-> 1], [name |-> "b", id |-> 2]}

SeqsUpTo(S, n) == UNION {[1..k -> S] : k \in 0..n}

Arrays == {Arr(s) : s \in SeqsUpTo(Items, MaxPageLen)}
\* Single-object resources: without a message field (rate_limit, ...) and
\* with one (GitHub's error payloads).
PlainObjects == {Obj("", "rate"), Obj("", "user")}
ErrorObjects == {Obj("Not Found", "")}
Data == Arrays \cup PlainObjects \cup ErrorObjects

(***************************************************************************)
(* What the request library hands to its callback: (error, body).  A body  *)
(* is a text; "json" texts hold the value they denote.                     *)
(***************************************************************************)
JsonText(d) == [text |-> "json", data |-> d]
Garbage == [text |-> "garbage", data |-> Undefined]
NoBody == [text |-> "undefined", data |-> Undefined]

Answer(d) == [error |-> Null, body |-> JsonText(d)]
Malformed == [error |-> Null, body |-> Garbage]
Failed == [error |-> TransportError, body |-> NoBody]

\* JSON.parse(body): throws a SyntaxError on undefined and on non-JSON text.
JSONparse(body) ==
  IF body.text = "json" THEN [threw |-> FALSE, data |-> body.data]
                         ELSE [threw |-> TRUE, data |-> Undefined]

\* JavaScript truthiness of data.length and data.message.
TruthyLength(d) == d.kind = "array" /\ Len(d.items) > 0
TruthyMessage(d) == d.kind = "object" /\ d.message # ""

(***************************************************************************)
(* githubRequest: the state of one paginated fetch.                        *)
(*   collection  the accumulated array                                     *)
(*   pending     page numbers requested and not yet answered               *)
(*   requests    every page number requested, in order                     *)
(*   served      what the upstream answered, in order                      *)
(*   cb          the invocations of the callback, in order                 *)
(*   crashed     an exception escaped the response handler                 *)
(***************************************************************************)
NewFetch == [collection |-> <<>>, pending |-> {}, requests |-> <<>>,
             served |-> <<>>, cb |-> <<>>, crashed |-> FALSE]

\* fetch(page): issue the request for one page.
FetchPage(f, page) ==
  [f EXCEPT !.pending = @ \cup {page}, !.requests = Append(@, page)]

\* callback(err, value)
Callback(f, e, v) == [f EXCEPT !.cb = Append(@, [err |-> e, val |-> v])]

\* collection.concat(data)
ConcatMutant(collection, data) == data.items \o collection
Concat(collection, data) == collection \o data.items

\* The next page after page.
NextPageMutant(page) == page
NextPage(page) == page + 1

\* The response handler of fetch(page), lines 105-121.
OnResponseNoMessageCheck(f, page, r) ==
  LET g == [f EXCEPT !.pending = @ \ {page}, !.served = Append(@, r)]
      p == JSONparse(r.body)
      data == p.data
  IN IF p.threw THEN [g EXCEPT !.crashed = TRUE]
     ELSE IF TruthyLength(data)
       THEN FetchPage([g EXCEPT !.collection = Concat(@, data)], NextPage(page))
     ELSE IF Len(g.collection) > 0
       THEN Callback(g, r.error, Arr(g.collection))
     ELSE Callback(g, r.error, data)

OnResponse(f, page, r) ==
  LET g == [f EXCEPT !.pending = @ \ {page}, !.served = Append(@, r)]
      p == JSONparse(r.body)
      data == p.data
  IN IF p.threw THEN [g EXCEPT !.crashed = TRUE]
     ELSE IF TruthyLength(data)
       THEN FetchPage([g EXCEPT !.collection = Concat(@, data)], NextPage(page))
     ELSE IF Len(g.collection) > 0
       THEN Callback(g, r.error, Arr(g.collection))
     ELSE IF TruthyMessage(data)
       THEN Callback(g, data, Undefined)
     ELSE Callback(g, r.error, data)

\* What an upstream with finitely many pages may answer for a page.
Responses(page) ==
  {Answer(d) : d \in {a \in Data : TruthyLength(a) => page <= MaxPage}}
    \cup {Malformed, Failed}

(***************************************************************************)
(* The Response Cache: lru({max: 100, maxAge: 1000 * 60 * 5}).             *)
(* The cache is the sequence of its entries, least recently used first;    *)
(* an entry is [key, value, now], now being the time it was set.  get and  *)
(* set behave as the lru-cache package does under this configuration: age  *)
(* counts from set, a stale entry is dropped on get, a hit or a set makes  *)
(* the entry the most recently used one.                                   *)
(***************************************************************************)
\* max: 100 in the source; 2 here, so that the model fills the cache.
max == 2
\* maxAge, in milliseconds.
maxAge == 1000 * 60 * 5
\* The clock advances in steps of 150 s.
TickMs == 1000 * 150

Keys(c) == {c[i].key : i \in 1..Len(c)}
IndexOf(c, key) == CHOOSE i \in 1..Len(c) : c[i].key = key
Without(c, i) == SubSeq(c, 1, i - 1) \o SubSeq(c, i + 1, Len(c))

\* An entry older than maxAge is stale.
IsStaleMutant(e, now) == FALSE
IsStale(e, now) == now - e.now > maxAge

\* cache.get(key): a stale entry is dropped and undefined returned; a hit
\* becomes the most recently used entry.
LruGet(c, key, now) ==
  IF key \notin Keys(c) THEN [cache |-> c, value |-> Undefined]
  ELSE LET i == IndexOf(c, key)
       IN IF IsStale(c[i], now)
            THEN [cache |-> Without(c, i), value |-> Undefined]
            ELSE [cache |-> Append(Without(c, i), c[i]), value |-> c[i].value]

\* Drop least recently used entries until at most max are left.
RECURSIVE TrimMutant(_)
TrimMutant(c) == IF Len(c) > max THEN TrimMutant(Without(c, Len(c) - 1)) ELSE c
RECURSIVE Trim(_)
Trim(c) == IF Len(c) > max THEN Trim(Tail(c)) ELSE c

\* cache.set(key, value): the entry becomes the most recently used one, its
\* age starts again, and the least recently used entries beyond max go.
LruSetMutant(c, key, value, now) == c
LruSet(c, key, value, now) ==
  LET e == [key |-> key, value |-> value, now |-> now]
  IN IF key \in Keys(c) THEN Append(Without(c, IndexOf(c, key)), e)
                         ELSE Trim(Append(c, e))

(***************************************************************************)
(* githubJSON and getUserInfo.                                             *)
(***************************************************************************)
Host == "https://api.github.com"
\* The fragments githubJSON is called with, and the user of getUserInfo.
Fragments == {"/repos/MozillaFoundation/plan/milestones",
              "/repos/MozillaFoundation/plan/issues?milestone=1"}
Usernames == {"u"}
JsonUrl(fragment) == [host |-> Host, path |-> fragment]
UserUrl(username) == [host |-> Host, path |-> "/users/" \o username]
Urls == {JsonUrl(f) : f \in Fragments} \cup {UserUrl(u) : u \in Usernames}

\* typeof copy !== 'undefined'
IsHitMutant(copy) == FALSE
IsHit(copy) == copy # Undefined

\* With json: {} the request library parses the body itself: the callback
\* gets (err) on a transport error and (null, parsed body) otherwise.
JsonBodies == {Arr(<<[name |-> "a", id |-> 1]>>), Arr(<<[name |-> "b", id |-> 2]>>),
               Obj("Not Found", "")}
JsonResponses == {[err |-> Null, body |-> b] : b \in JsonBodies}
                   \cup {[err |-> TransportError, body |-> Undefined]}

Callers == {1, 2}
Idle == [pc |-> "idle", op |-> "", url |-> JsonUrl("")]
NoEvent == [op |-> "", url |-> JsonUrl(""), type |-> "none", err |-> Null, val |-> Undefined]

(***************************************************************************)
(* The fan-out operations: async.concat over githubRequest.  async.concat  *)
(* appends each member's result to r as it arrives and invokes the final   *)
(* callback with (err, r): on the first error, or after the last member.   *)
(*   op         the operation called ("" before the call)                  *)
(*   n          the number of targets                                      *)
(*   r          async.concat's accumulated results                         *)
(*   completed  async.each's count of members that ended without error     *)
(*   settled    async.each has invoked its callback (and replaced it)      *)
(*   out        the invocations of the operation's callback, in order      *)
(***************************************************************************)
FanOps == {"getRepos", "getUsersForOrgs", "getMilestonesForRepos", "getLabelsForRepos"}
NewFan == [op |-> "", n |-> 0, r |-> <<>>, completed |-> 0, settled |-> FALSE,
           out |-> <<>>]

\* JavaScript truthiness of an error argument.
Truthy(e) == e.kind \notin {"undefined", "null"}

\* r.concat(y || [])
ConcatResult(r, y) ==
  IF y.kind = "array" THEN r \o y.items
  ELSE IF y.kind \in {"undefined", "null"} THEN r
  ELSE Append(r, y)

\* results.forEach: push the identity unless indexOf finds it already.
RECURSIVE DedupMutant(_, _)
DedupMutant(results, collection) ==
  IF results = <<>> THEN collection
  ELSE LET id == Head(results).name
       IN DedupMutant(Tail(results),
                      IF collection # <<>> /\ collection[Len(collection)] = id
                        THEN collection ELSE Append(collection, id))
RECURSIVE Dedup(_, _)
Dedup(results, collection) ==
  IF results = <<>> THEN collection
  ELSE LET id == Head(results).name
       IN Dedup(Tail(results),
                IF \E i \in 1..Len(collection) : collection[i] = id
                  THEN collection ELSE Append(collection, id))

\* The callback each operation hands to async.concat, lines 215-217,
\* 225-238, 248-261 and 271-284.
FinalCallback(fn, err, results) ==
  IF fn.op = "getRepos"
    THEN [fn EXCEPT !.out = Append(@, [err |-> err, val |-> Arr(results)])]
  ELSE IF Truthy(err)
    THEN [fn EXCEPT !.out = Append(@, [err |-> err, val |-> Undefined])]
  ELSE [fn EXCEPT !.out = Append(@, [err |-> err, val |-> Arr(Dedup(results, <<>>))])]

\* A member's githubRequest invoked its callback with (err, y): async.concat
\* appends y to r and tells async.each, which invokes the final callback on
\* the first error (once) or when every member has completed.
MemberDone(fn, err, y) ==
  LET g == [fn EXCEPT !.r = ConcatResult(@, y)]
  IN IF g.settled THEN
       IF Truthy(err) THEN g ELSE [g EXCEPT !.completed = @ + 1]
     ELSE IF Truthy(err) THEN FinalCallback([g EXCEPT !.settled = TRUE], err, g.r)
     ELSE IF g.completed + 1 >= g.n
       THEN FinalCallback([g EXCEPT !.completed = @ + 1, !.settled = TRUE], Undefined, g.r)
     ELSE [g EXCEPT !.completed = @ + 1]

\* What the upstream of a member answers: one page of records at most, an
\* error payload on any page, or a transport error.
FanResponses(page) ==
  IF page = 0
    THEN {Answer(a) : a \in {b \in Arrays : TruthyLength(b)}}
           \cup {Answer(Obj("Not Found", "")), Failed}
    ELSE {Answer(Arr(<<>>)), Answer(Obj("Not Found", ""))}

(***************************************************************************)
(* server.js: the routes behind checkCache, and the cache primer.          *)
(*                                                                         *)
(* A view a route handler computes is the number of its computation        *)
(* (1, 2, ...), so that a recomputed view differs from every older one;    *)
(* 0 stands for "no data".                                                 *)
(*                                                                         *)
(* A request is [pc, url, resp]:                                           *)
(*   pc     "free"            no such request                              *)
(*          "sent"            on its way to checkCache                     *)
(*          "nestedSent"      (labels, milestones) the handler's own       *)
(*                            request for the repo names is on its way    *)
(*          "nestedHandling"  the repo-names handler works for it          *)
(*          "nestedResponded" the repo names are on their way back         *)
(*          "handling"        the facade operation of the route works      *)
(*          "responded"       the response is on its way back              *)
(*   resp   the response (of the nested request while pc is nested...)     *)
(***************************************************************************)
RepoNames == "/api/github/mozilla-repo-names"
Users == "/api/github/foundation-users"
Labels == "/api/github/mozilla-labels"
Milestones == "/api/github/mozilla-milestones"
\* The resources primeCache refreshes, lines 300-305.  The model follows
\* three of the four: the milestones route, lines 277-294, is the labels
\* route, lines 259-276, with getMilestonesForRepos for getLabelsForRepos.
Resources == {RepoNames, Users, Labels}
\* The routes whose handler first requests the repo names, lines 259-294.
NestedRoutes == {Labels, Milestones} \cap Resources
Readers == {"reader"}
ReqIds == Resources \cup Readers

NoResp == [status |-> 0, src |-> "", val |-> 0]
Free == [pc |-> "free", url |-> "", resp |-> NoResp]
Sent(u) == [pc |-> "sent", url |-> u, resp |-> NoResp]

\* checkCache.overrides[req.url], line 213.
BypassMutant(ov, url) == TRUE
Bypass(ov, url) == ov[url]
\* delete checkCache.overrides[req.url], line 214.
ClearOverrideMutant(ov, url) == ov
ClearOverride(ov, url) == [ov EXCEPT ![url] = FALSE]
\* checkCache.overrides[url] = true, line 310.
MarkOverride(ov, url) == [ov EXCEPT ![url] = TRUE]

\* cache.read(url, callback) of ./lib/cache: callback(err, data).
CacheRead(store, url, fails) ==
  IF fails THEN [err |-> TRUE, data |-> 0] ELSE [err |-> FALSE, data |-> store[url]]
\* cache.write(url, value) of ./lib/cache.
CacheWrite(store, url, value) == [store EXCEPT ![url] = value]

\* checkCache(req, res, next) for url, lines 212-225.  fails: cache.read
\* reports an error.  The outcome: the overrides afterwards, whether the
\* cache was consulted, and "next" (the route handler runs), "json" (the
\* cached data is the response) or "error" (next(err): the error handler
\* answers 500).
CheckCache(ov, store, url, fails) ==
  IF Bypass(ov, url)
    THEN [overrides |-> ClearOverride(ov, url), consulted |-> FALSE,
          to |-> "next", data |-> 0]
    ELSE LET got == CacheRead(store, url, fails)
         IN [overrides |-> ov, consulted |-> TRUE,
             to |-> IF got.err THEN "error" ELSE IF got.data = 0 THEN "next" ELSE "json",
             data |-> got.data]

FromCache(data) == [status |-> 200, src |-> "cache", val |-> data]
FromHandler(v) == [status |-> 200, src |-> "handler", val |-> v]
ErrorPage == [status |-> 500, src |-> "errorHandler", val |-> 0]

VARIABLES
  fetch,    \* SpecFetch: the paginated fetch
  cache,    \* the Response Cache
  clock,    \* Date.now()
  json,     \* per caller: its githubJSON / getUserInfo call in flight
  ncalls,   \* calls of githubJSON / getUserInfo so far
  nreq,     \* upstream requests issued by them so far
  nuse,     \* uses (a set or a hit) of cache entries so far
  used,     \* per url: the number of the last use of its entry
  ev,       \* the last callback invocation, or the last miss
  members,  \* SpecFanout: per target, its githubRequest
  fan,      \* SpecFanout: the fan-out operation
  overrides, \* checkCache.overrides: per url, bypass the cache once
  store,    \* the externally-visible cache (./lib/cache): per url, its data
  req,      \* the requests to the server's own routes
  gen,      \* views computed by route handlers so far
  nfire,    \* timer firings so far
  nread,    \* reader requests so far
  down,     \* an exception escaped a callback of server.js
  team,     \* SpecTeam: the teamMembers operation
  view,     \* SpecViews: the milestone operation
  post,     \* SpecViews: the postIssueWithToken calls
  sort      \* SpecSort: sortIssuesByPriority, its argument and result

vars == <<fetch, cache, clock, json, ncalls, nreq, nuse, used, ev, members, fan,
          overrides, store, req, gen, nfire, nread, down, team, view, post, sort>>
opVars == <<team, view, post, sort>>
fanVars == <<members, fan>>
schedVars == <<overrides, store, req, gen, nfire, nread, down>>
cacheVars == <<cache, clock, json, ncalls, nreq, nuse, used, ev>>

InitCache ==
  /\ cache = <<>>
  /\ clock = 0
  /\ json = [c \in Callers |-> Idle]
  /\ ncalls = 0
  /\ nreq = 0
  /\ nuse = 0
  /\ used = [u \in Urls |-> 0]
  /\ ev = NoEvent

(***************************************************************************)
(* SpecFetch: one githubRequest against an arbitrary upstream.             *)
(***************************************************************************)
InitFan ==
  /\ members = [i \in 1..MaxTargets |-> NewFetch]
  /\ fan = NewFan

\* primeCache has run: every resource is marked and its refresh request sent.
InitSched ==
  /\ overrides = [u \in Resources |-> TRUE]
  /\ store = [u \in Resources |-> 0]
  /\ req = [x \in ReqIds |-> IF x \in Resources THEN Sent(x) ELSE Free]
  /\ gen = 0
  /\ nfire = 0
  /\ nread = 0
  /\ down = FALSE

(***************************************************************************)
(* teamMembers, lines 388-418.  The state of one call:                     *)
(*   called   teamMembers was called, with the team name                   *)
(*   pending  the upstream requests of githubJSON not yet answered, each   *)
(*            with what its callback is: k.kind "teams", "members" (of     *)
(*            chain k.chain) or "user" (member k.idx of chain k.chain)     *)
(*   chains   one per team whose name matched: the team's id, async.map's  *)
(*            results, its count of completed members, and whether it has  *)
(*            invoked its callback                                         *)
(*   out      the invocations of the callback of teamMembers, in order     *)
(*   crashed  an exception escaped a callback                              *)
(***************************************************************************)
TeamBlobs == {[name |-> "Staff", id |-> 1], [name |-> "staff", id |-> 2],
              [name |-> "other", id |-> 3]}
TeamNames == {"Staff", "other", "none"}
\* name.toLowerCase()
toLowerCase(name) == IF name = "Staff" THEN "staff" ELSE name
MemberBlobs == {[name |-> "u", id |-> 1], [name |-> "v", id |-> 2]}

\* The sequences over S without repetition, up to length n.
DistinctSeqs(S, n) == {s \in SeqsUpTo(S, n) : \A i, j \in 1..Len(s) : s[i] = s[j] => i = j}

TeamsUrl == JsonUrl("/orgs/MozillaFoundation/teams")
MembersUrl(id) ==
  JsonUrl(IF id = 1 THEN "/teams/1/members?per_page=100"
          ELSE IF id = 2 THEN "/teams/2/members?per_page=100"
          ELSE "/teams/3/members?per_page=100")
MemberUrl(login) == JsonUrl("/users/" \o login)

NewTeam == [called |-> FALSE, name |-> "", pending |-> {}, chains |-> <<>>,
            out |-> <<>>, crashed |-> FALSE]
NewChain(id) == [id |-> id, n |-> 0, results |-> <<>>, completed |-> 0, settled |-> FALSE]
TeamsK == [kind |-> "teams", chain |-> 0, idx |-> 0]
MembersK(ch) == [kind |-> "members", chain |-> ch, idx |-> 0]
UserK(ch, j) == [kind |-> "user", chain |-> ch, idx |-> j]

\* The callback of teamMembers is invoked with (err, val).
TeamOut(w, err, val) == [w EXCEPT !.t.out = Append(@, [err |-> err, val |-> val])]
\* A TypeError escapes the callback.
TeamThrow(w) == [w EXCEPT !.t.crashed = TRUE]

RECURSIVE TeamJSON(_, _, _, _)
RECURSIVE TeamCallback(_, _, _, _, _)
RECURSIVE OnTeams(_, _, _, _)
RECURSIVE TeamsForEach(_, _, _, _)
RECURSIVE OnMembers(_, _, _, _, _)
RECURSIVE MembersEach(_, _, _, _, _)

\* async.map's callback of member j of chain ch, lines 407-410, and
\* async.each under it: the first error invokes the callback of teamMembers
\* with (err, results), the last completion with (undefined, results).
OnUser(w, ch, j, err, memberblob) ==
  LET c == w.t.chains[ch]
  IN IF Truthy(err)
       THEN IF c.settled THEN w
            ELSE TeamOut([w EXCEPT !.t.chains[ch].settled = TRUE], err, Arr(c.results))
       ELSE LET d == [c EXCEPT !.results[j] = memberblob, !.completed = @ + 1]
            IN IF ~c.settled /\ d.completed >= d.n
                 THEN TeamOut([w EXCEPT !.t.chains[ch] = [d EXCEPT !.settled = TRUE]],
                              Undefined, Arr(d.results))
                 ELSE [w EXCEPT !.t.chains[ch] = d]

\* githubJSON(url, callback k) within the call, lines 127-144: a hit invokes
\* the callback at once, a miss issues the request.
TeamJSON(w, url, k, now) ==
  LET got == LruGet(w.c, url, now)
  IN IF IsHit(got.value)
       THEN TeamCallback([w EXCEPT !.c = got.cache], k, Null, got.value, now)
       ELSE [w EXCEPT !.c = got.cache, !.t.pending = @ \cup {[k |-> k, url |-> url]}]

TeamCallback(w, k, err, val, now) ==
  IF k.kind = "teams" THEN OnTeams(w, err, val, now)
  ELSE IF k.kind = "members" THEN OnMembers(w, k.chain, err, val, now)
  ELSE OnUser(w, k.chain, k.idx, err, val)

\* Lines 396-417: nothing happens without a teamsblob; forEach exists on
\* arrays only.
OnTeams(w, err, teamsblob, now) ==
  IF teamsblob.kind \in {"undefined", "null"} THEN w
  ELSE IF teamsblob.kind # "array" THEN TeamThrow(w)
  ELSE TeamsForEach(w, teamsblob.items, 1, now)

\* Lines 399-414, from team i on: every team whose name matches starts a
\* chain with the request for its members.
TeamsForEach(w, blobs, i, now) ==
  IF i > Len(blobs) \/ w.t.crashed THEN w
  ELSE IF toLowerCase(blobs[i].name) = toLowerCase(w.t.name)
    THEN LET w1 == [w EXCEPT !.t.chains = Append(@, NewChain(blobs[i].id))]
         IN TeamsForEach(TeamJSON(w1, MembersUrl(blobs[i].id), MembersK(Len(w1.t.chains)), now),
                         blobs, i + 1, now)
  ELSE TeamsForEach(w, blobs, i + 1, now)

\* Lines 404-412: membersblob.length throws on undefined; async.map over no
\* members invokes the callback at once.
OnMembers(w, ch, err, membersblob, now) ==
  IF membersblob.kind # "array" THEN TeamThrow(w)
  ELSE LET n == Len(membersblob.items)
           w1 == [w EXCEPT !.t.chains[ch].n = n,
                           !.t.chains[ch].results = [j \in 1..n |-> Undefined]]
       IN IF n = 0
            THEN TeamOut([w1 EXCEPT !.t.chains[ch].settled = TRUE], Undefined, Arr(<<>>))
            ELSE MembersEach(w1, ch, membersblob.items, 1, now)

\* async.map calls the iterator for every member, from member j on.
MembersEach(w, ch, items, j, now) ==
  IF j > Len(items) THEN w
  ELSE MembersEach(TeamJSON(w, MemberUrl(items[j].name), UserK(ch, j), now),
                   ch, items, j + 1, now)

\* What the upstream answers to the request behind callback k.
TeamResponses(k) ==
  {[err |-> TransportError, body |-> Undefined]} \cup
  {[err |-> Null, body |-> b] : b \in
     IF k.kind = "teams"
       THEN {Arr(s) : s \in DistinctSeqs(TeamBlobs, MaxTeams)} \cup {Obj("Not Found", "")}
     ELSE IF k.kind = "members"
       THEN {Arr(s) : s \in DistinctSeqs(MemberBlobs, MaxMembers)}
     ELSE {Obj("", "user")}}

(***************************************************************************)
(* sortIssuesByPriority, lines 65-86.  An issue is its id and its labels   *)
(* field: the array of the names of its labels, in order, or undefined if  *)
(* the record has no labels field.                                         *)
(***************************************************************************)
\* The name read from a label that has no name field: undefined, which is
\* === to no string.
NoName == ""
LabelLists == {<<>>, <<"p1">>, <<"p1", "other">>, <<"other", "p1">>, <<"p10">>,
               <<NoName>>, <<NoName, "p1">>}
\* What issue.labels evaluates to.
IssueLabels == {Arr(names) : names \in LabelLists} \cup {Undefined}
\* The lists of issues with consecutive ids and any labels.
IssueLists ==
  {[i \in 1..Len(ls) |-> [id |-> i, labels |-> ls[i]]] : ls \in SeqsUpTo(IssueLabels, MaxIssues)}

\* The inner loop, lines 75-80: some label from position l on is named 'p1'.
IsPriorityMutant(labels, l) == l <= Len(labels) /\ labels[l] = "p1"
RECURSIVE IsPriority(_, _)
IsPriority(labels, l) ==
  IF l > Len(labels) THEN FALSE
  ELSE IF labels[l] = "p1" THEN TRUE
  ELSE IsPriority(labels, l + 1)

\* issue.labels.length, line 75: reading length of undefined or null throws
\* a TypeError; the loop from position i on reaches such an issue.
RECURSIVE SortThrows(_, _)
SortThrows(issues, i) ==
  IF i > Len(issues) THEN FALSE
  ELSE IF issues[i].labels.kind \in {"undefined", "null"} THEN TRUE
  ELSE SortThrows(issues, i + 1)

\* The outer loop from position i on, result being what was pushed so far.
RECURSIVE SortLoop(_, _, _)
SortLoop(issues, i, result) ==
  IF i > Len(issues) THEN result
  ELSE SortLoop(issues, i + 1,
                IF IsPriority(issues[i].labels.items, 1)
                  THEN [result EXCEPT !.p1 = Append(@, issues[i])]
                  ELSE [result EXCEPT !.p2 = Append(@, issues[i])])

sortIssuesByPriority(issues) == SortLoop(issues, 1, [p1 |-> <<>>, p2 |-> <<>>])

NoResult == [p1 |-> <<>>, p2 |-> <<>>]

(***************************************************************************)
(* thisMilestone, nextMilestone and upcomingMilestones, lines 291-357,     *)
(* over getMilestones and getIssuesForMilestone (githubJSON).              *)
(* A milestone is [number, due_on, issues]: due_on a time in milliseconds  *)
(* or NoDue (null), issues what upcomingMilestones assigns to it.          *)
(* The state of one call:                                                  *)
(*   op          the operation called ("" before the call)                 *)
(*   pending     the upstream requests not yet answered, with what their   *)
(*               callback is: k.kind "milestones" or "issues" (k.idx the    *)
(*               position in set, 0 for thisMilestone and nextMilestone)   *)
(*   answers     what the upstream answered to which request               *)
(*   milestones  what getMilestones handed to the callback, and at: when   *)
(*   fetched     the numbers getIssuesForMilestone was called with         *)
(*   set, completed, settled   async.map's state (set holds the results)   *)
(*   out         the invocations of the operation's callback, in order     *)
(*   crashed     an exception escaped a callback                           *)
(***************************************************************************)
NoDue == 0 - 1
\* new Date(due_on).getTime(): new Date(null) is the epoch.
DateOf(due_on) == IF due_on = NoDue THEN 0 ELSE due_on
DueDates == {NoDue, 2 * TickMs}
MilestoneBlobs ==
  {[number |-> n, due_on |-> d, issues |-> Undefined] : n \in 1..MaxMilestones, d \in DueDates}
NoMilestone == [number |-> 0, due_on |-> NoDue, issues |-> Undefined]
\* The listings: no number twice.
MilestoneLists ==
  {s \in SeqsUpTo(MilestoneBlobs, MaxMilestones) :
     \A i, j \in 1..Len(s) : s[i].number = s[j].number => i = j}

\* milestones.slice(0, 6): 6 in the source; 2 here, so that the model's
\* listings exceed it.
sliceEnd == 2
slice(milestones) == SubSeq(milestones, 1, IF Len(milestones) < sliceEnd THEN Len(milestones) ELSE sliceEnd)

NumStr(n) == <<"1", "2", "3", "4", "5", "6", "7", "8", "9">>[n]
MilestonesUrl == JsonUrl("/repos/MozillaFoundation/plan/milestones")
IssuesUrl(id) == JsonUrl("/repos/MozillaFoundation/plan/issues?milestone=" \o NumStr(id))

ViewOps == {"thisMilestone", "nextMilestone", "upcomingMilestones"}
NewView == [op |-> "", pending |-> {}, answers |-> {}, milestones |-> Undefined, at |-> 0,
            fetched |-> <<>>, set |-> <<>>, results |-> <<>>, completed |-> 0,
            settled |-> FALSE,
            out |-> <<>>, crashed |-> FALSE]
MilestonesK == [kind |-> "milestones", idx |-> 0]
IssuesK(i) == [kind |-> "issues", idx |-> i]
\* The error thisMilestone and nextMilestone report without a milestone.
NotFound404 == [kind |-> "string", items |-> <<>>, message |-> "", tag |-> "404"]

\* Lines 297-304: the loop of thisMilestone from position i on.
RECURSIVE ThisLoopMutant(_, _, _, _)
ThisLoopMutant(milestones, i, milestone, now) ==
  IF i > Len(milestones) THEN milestone
  ELSE IF DateOf(milestones[i].due_on) > now THEN milestones[i]
  ELSE ThisLoopMutant(milestones, i + 1, milestone, now)
RECURSIVE ThisLoop(_, _, _, _)
ThisLoop(milestones, i, milestone, now) ==
  IF i > Len(milestones) THEN milestone
  ELSE IF DateOf(milestones[i].due_on) > now THEN milestones[i]
  ELSE ThisLoop(milestones, i + 1, milestones[i], now)

\* Math.min(i+1, milestones.length-1), positions counted from 1.
MinNextMutant(i, length) == i + 1
MinNext(i, length) == IF i + 1 < length THEN i + 1 ELSE length

\* Lines 320-329: the loop of nextMilestone from position i on.
RECURSIVE NextLoop(_, _, _, _)
NextLoop(milestones, i, milestone, now) ==
  IF i > Len(milestones) THEN milestone
  ELSE IF DateOf(milestones[i].due_on) > now
    THEN LET n == MinNext(i, Len(milestones))
         IN IF n <= Len(milestones) THEN milestones[n] ELSE NoMilestone
  ELSE NextLoop(milestones, i + 1, milestones[i], now)

\* var milestone = milestones[0] and the loop; a value that is no array has
\* neither elements nor a length.
SelectMilestone(op, milestones, now) ==
  IF milestones.kind # "array" \/ milestones.items = <<>> THEN NoMilestone
  ELSE IF op = "thisMilestone"
    THEN ThisLoop(milestones.items, 1, milestones.items[1], now)
    ELSE NextLoop(milestones.items, 1, milestones.items[1], now)

\* The callback of the operation is invoked with (err, val).
ViewOut(w, err, val) == [w EXCEPT !.v.out = Append(@, [err |-> err, val |-> val])]

\* milestone.issues = issues, line 352: the milestone is the object the
\* listing holds, in the call and in the Response Cache alike.
Annotate(c, i, issues) ==
  IF MilestonesUrl \notin Keys(c) THEN c
  ELSE [c EXCEPT ![IndexOf(c, MilestonesUrl)].value.items[i].issues = issues]

NewSort == [issues |-> <<>>, returned |-> FALSE, result |-> NoResult, threw |-> FALSE]

RECURSIVE ViewJSON(_, _, _, _)
RECURSIVE ViewCallback(_, _, _, _, _)
RECURSIVE OnMilestones(_, _, _, _)
RECURSIVE IssuesEach(_, _, _)

\* The callbacks of getIssuesForMilestone, lines 306-310, 331-335 and
\* 349-354 with async.map around it: the first error invokes the callback of
\* upcomingMilestones with (err, results), the last completion with
\* (undefined, results).
OnIssues(w, idx, err, issues) ==
  IF w.v.op # "upcomingMilestones"
    THEN IF Truthy(err) THEN ViewOut(w, err, Undefined)
         ELSE IF SortThrows(issues.items, 1) THEN [w EXCEPT !.v.crashed = TRUE]
         ELSE ViewOut(w, Null, sortIssuesByPriority(issues.items))
  ELSE IF Truthy(err)
    THEN IF w.v.settled THEN w
         ELSE ViewOut([w EXCEPT !.v.settled = TRUE], err, Arr(w.v.results))
  ELSE LET milestone == [w.v.set[idx] EXCEPT !.issues = issues]
           w1 == [w EXCEPT !.v.set[idx] = milestone,
                           !.c = Annotate(@, idx, issues),
                           !.v.results[idx] = milestone,
                           !.v.completed = @ + 1]
       IN IF ~w1.v.settled /\ w1.v.completed >= Len(w1.v.set)
            THEN ViewOut([w1 EXCEPT !.v.settled = TRUE], Undefined, Arr(w1.v.results))
            ELSE w1

\* githubJSON(url, callback k) within the call, lines 127-144.
ViewJSON(w, url, k, now) ==
  LET got == LruGet(w.c, url, now)
  IN IF IsHit(got.value)
       THEN ViewCallback([w EXCEPT !.c = got.cache], k, Null, got.value, now)
       ELSE [w EXCEPT !.c = got.cache, !.v.pending = @ \cup {[k |-> k, url |-> url]}]

ViewCallback(w, k, err, val, now) ==
  IF k.kind = "milestones" THEN OnMilestones(w, err, val, now)
  ELSE OnIssues(w, k.idx, err, val)

\* getIssuesForMilestone(milestone.number, ...), lines 306, 331 and 349.
GetIssuesForMilestone(w, milestone, k, now) ==
  ViewJSON([w EXCEPT !.v.fetched = Append(@, milestone.number)],
           IssuesUrl(milestone.number), k, now)

\* The callbacks of getMilestones, lines 294-311, 317-336 and 343-356.
OnMilestones(w, err, milestones, now) ==
  IF Truthy(err) THEN ViewOut(w, err, Undefined)
  ELSE LET w1 == [w EXCEPT !.v.milestones = milestones, !.v.at = now]
       IN IF w.v.op # "upcomingMilestones"
            THEN LET milestone == SelectMilestone(w.v.op, milestones, now)
                 IN IF milestone = NoMilestone
                      THEN ViewOut(w1, NotFound404, Undefined)
                      ELSE GetIssuesForMilestone(w1, milestone, IssuesK(0), now)
          ELSE IF milestones.kind # "array" THEN [w1 EXCEPT !.v.crashed = TRUE]
          ELSE LET set == slice(milestones.items)
                   w2 == [w1 EXCEPT !.v.set = set,
                                    !.v.results = [i \in 1..Len(set) |-> NoMilestone]]
               IN IF set = <<>>
                    THEN ViewOut([w2 EXCEPT !.v.settled = TRUE], Undefined, Arr(<<>>))
                    ELSE IssuesEach(w2, 1, now)

\* async.map calls the iterator for every milestone of set, from i on.
IssuesEach(w, i, now) ==
  IF i > Len(w.v.set) THEN w
  ELSE IssuesEach(GetIssuesForMilestone(w, w.v.set[i], IssuesK(i), now), i + 1, now)

\* What the upstream answers to the request behind callback k.
IssueBodies ==
  {Arr(<<[id |-> 1, labels |-> Arr(<<"p1">>)]>>),
   Arr(<<[id |-> 2, labels |-> Arr(<<>>)], [id |-> 1, labels |-> Arr(<<"p1">>)]>>),
   Obj("Not Found", "")}
ViewResponses(k) ==
  {[err |-> TransportError, body |-> Undefined]} \cup
  {[err |-> Null, body |-> b] : b \in
     IF k.kind = "milestones"
       THEN {Arr(s) : s \in MilestoneLists} \cup {Obj("Not Found", "")}
       ELSE IssueBodies}

(***************************************************************************)
(* postIssueWithToken, lines 183-198.                                      *)
(*   calls     calls so far                                                *)
(*   requests  the bodies of the POST requests issued, in order            *)
(*   pending   the requests (positions in requests) not yet answered       *)
(*   out       the invocations of the callbacks, in order                  *)
(***************************************************************************)
IssueForms == {"form1", "form2"}
NewPost == [calls |-> 0, requests |-> <<>>, pending |-> {}, out |-> <<>>]

\* The call: one POST request with the body; w is the calls' state and the
\* Response Cache.
PostIssueWithTokenMutant(w, body) ==
  IF \E i \in 1..Len(w.p.requests) : w.p.requests[i] = body
    THEN [w EXCEPT !.p.calls = @ + 1]
    ELSE [w EXCEPT !.p.calls = @ + 1,
                   !.p.requests = Append(@, body),
                   !.p.pending = @ \cup {Len(w.p.requests) + 1}]
PostIssueWithToken(w, body) ==
  [w EXCEPT !.p.calls = @ + 1,
            !.p.requests = Append(@, body),
            !.p.pending = @ \cup {Len(w.p.requests) + 1}]

\* What the upstream answers to a POST: the created issue, an error
\* payload, or no answer (a transport error).
PostResponses ==
  {[err |-> Null, body |-> Obj("", "created")], [err |-> Null, body |-> Obj("Not Found", "")],
   [err |-> TransportError, body |-> Undefined]}

InitOps ==
  /\ team = NewTeam
  /\ view = NewView
  /\ post = NewPost

InitFetch ==
  /\ fetch = NewFetch /\ InitCache /\ InitFan /\ InitSched /\ InitOps
  /\ sort = NewSort

(***************************************************************************)
(* SpecSort: sortIssuesByPriority applied to any list of issues.           *)
(***************************************************************************)
InitSort ==
  /\ fetch = NewFetch /\ InitCache /\ InitFan /\ InitSched /\ InitOps
  /\ sort \in {[NewSort EXCEPT !.issues = s] : s \in IssueLists}

SortIssues ==
  /\ ~sort.returned /\ ~sort.threw
  /\ sort' = IF SortThrows(sort.issues, 1)
               THEN [sort EXCEPT !.threw = TRUE]
               ELSE [sort EXCEPT !.returned = TRUE,
                                 !.result = sortIssuesByPriority(sort.issues)]
  /\ UNCHANGED <<fetch, cacheVars, fanVars, schedVars, team, view, post>>

SpecSort == InitSort /\ [][SortIssues]_vars


\* githubRequest(options, callback): fetch(0).
GithubRequest ==
  /\ fetch = NewFetch
  /\ fetch' = FetchPage(fetch, 0)
  /\ UNCHANGED <<cacheVars, fanVars, schedVars, opVars>>

\* The upstream answers a pending page request.
FetchResponse ==
  /\ ~fetch.crashed
  /\ \E page \in fetch.pending : \E r \in Responses(page) :
       fetch' = OnResponse(fetch, page, r)
  /\ UNCHANGED <<cacheVars, fanVars, schedVars, opVars>>

NextFetch == GithubRequest \/ FetchResponse

SpecFetch == InitFetch /\ [][NextFetch]_vars

(***************************************************************************)
(* SpecCache: concurrent githubJSON and getUserInfo calls over the         *)
(* Response Cache, against an arbitrary upstream, while time passes.       *)
(***************************************************************************)
\* Lines 130-144 and 364-378: look the url up; a hit invokes the callback
\* with the copy, a miss issues the upstream request.
CachedRead(c, op, url) ==
  /\ json[c].pc = "idle"
  /\ ncalls < MaxCalls
  /\ ncalls' = ncalls + 1
  /\ LET got == LruGet(cache, url, clock)
     IN /\ cache' = got.cache
        /\ IF IsHit(got.value)
             THEN /\ ev' = [op |-> op, url |-> url, type |-> "hit",
                            err |-> Null, val |-> got.value]
                  /\ nuse' = nuse + 1
                  /\ used' = [used EXCEPT ![url] = nuse + 1]
                  /\ UNCHANGED <<json, nreq>>
             ELSE /\ json' = [json EXCEPT ![c] = [pc |-> "waiting", op |-> op, url |-> url]]
                  /\ nreq' = nreq + 1
                  /\ ev' = [op |-> op, url |-> url, type |-> "miss",
                            err |-> Null, val |-> Undefined]
                  /\ UNCHANGED <<nuse, used>>
  /\ UNCHANGED <<fetch, clock, fanVars, schedVars, opVars>>

\* githubJSON(fragment, callback)
GithubJSON(c, fragment) == CachedRead(c, "githubJSON", JsonUrl(fragment))

\* getUserInfo(username, callback)
GetUserInfo(c, username) == CachedRead(c, "getUserInfo", UserUrl(username))

\* Lines 145-150 and 379-385: the upstream answers.
JsonResponse(c, r) ==
  /\ json[c].pc = "waiting"
  /\ json' = [json EXCEPT ![c] = Idle]
  /\ IF r.err # Null
       THEN /\ ev' = [op |-> json[c].op, url |-> json[c].url, type |-> "error",
                      err |-> r.err, val |-> Undefined]
            /\ UNCHANGED <<cache, nuse, used>>
       ELSE /\ cache' = LruSet(cache, json[c].url, r.body, clock)
            /\ nuse' = nuse + 1
            /\ used' = [used EXCEPT ![json[c].url] = nuse + 1]
            /\ ev' = [op |-> json[c].op, url |-> json[c].url, type |-> "value",
                      err |-> r.err, val |-> r.body]
  /\ UNCHANGED <<fetch, clock, ncalls, nreq, fanVars, schedVars, opVars>>

\* Time passes.
Tick ==
  /\ clock < MaxTicks * TickMs
  /\ clock' = clock + TickMs
  /\ UNCHANGED <<fetch, cache, json, ncalls, nreq, nuse, used, ev, fanVars, schedVars, opVars>>

NextCache ==
  \/ \E c \in Callers : \E f \in Fragments : GithubJSON(c, f)
  \/ \E c \in Callers : \E u \in Usernames : GetUserInfo(c, u)
  \/ \E c \in Callers : \E r \in JsonResponses : JsonResponse(c, r)
  \/ Tick

SpecCache == InitFetch /\ [][NextCache]_vars

(***************************************************************************)
(* SpecReads: the read operations side by side: githubJSON and getUserInfo *)
(* calls of one caller, and one githubRequest (the fetch under getRepos,   *)
(* getUsersForOrgs, getMilestonesForRepos and getLabelsForRepos).          *)
(***************************************************************************)
\* The url of the paginated fetch, without its page number.
RequestUrl == [host |-> Host, path |-> "/orgs/MozillaFoundation/repos"]

\* The upstream of this fetch has one page.
ReadsResponses(page) ==
  IF page = 0 THEN {Answer(Arr(<<[name |-> "a", id |-> 1]>>)), Answer(Obj("Not Found", ""))}
              ELSE {Answer(Arr(<<>>))}

ReadsFetchResponse ==
  /\ ~fetch.crashed
  /\ \E page \in fetch.pending : \E r \in ReadsResponses(page) :
       fetch' = OnResponse(fetch, page, r)
  /\ UNCHANGED <<cacheVars, fanVars, schedVars, opVars>>

NextReads ==
  \/ \E f \in Fragments : GithubJSON(1, f)
  \/ \E u \in Usernames : GetUserInfo(1, u)
  \/ \E r \in JsonResponses : JsonResponse(1, r)
  \/ Tick
  \/ GithubRequest
  \/ ReadsFetchResponse

SpecReads == InitFetch /\ [][NextReads]_vars

(***************************************************************************)
(* SpecFanout: one fan-out operation over n targets, the members' page     *)
(* requests answered in any order.                                         *)
(***************************************************************************)
\* getRepos / getUsersForOrgs / getMilestonesForRepos / getLabelsForRepos:
\* async.concat calls githubRequest for every target.
FanCall(op, n) ==
  /\ fan = NewFan
  /\ fan' = [NewFan EXCEPT !.op = op, !.n = n]
  /\ members' = [i \in 1..MaxTargets |-> IF i <= n THEN FetchPage(NewFetch, 0) ELSE NewFetch]
  /\ UNCHANGED <<fetch, cacheVars, schedVars, opVars>>

\* The upstream answers a page request of member i.
FanResponse(i) ==
  /\ \A j \in 1..MaxTargets : ~members[j].crashed
  /\ \E page \in members[i].pending : \E r \in FanResponses(page) :
       LET m == OnResponse(members[i], page, r)
       IN /\ members' = [members EXCEPT ![i] = m]
          /\ fan' = IF Len(m.cb) > Len(members[i].cb)
                      THEN MemberDone(fan, m.cb[Len(m.cb)].err, m.cb[Len(m.cb)].val)
                      ELSE fan
  /\ UNCHANGED <<fetch, cacheVars, schedVars, opVars>>

NextFanout ==
  \/ \E op \in FanOps : \E n \in 1..MaxTargets : FanCall(op, n)
  \/ \E i \in 1..MaxTargets : FanResponse(i)

SpecFanout == InitFetch /\ [][NextFanout]_vars

(***************************************************************************)
(* SpecSched: the cache primer's refreshes, outside readers and the        *)
(* routes' nested requests, interleaved in any order.                      *)
(***************************************************************************)
others == <<fetch, cacheVars, fanVars, opVars>>

\* next(): the route handler starts.  The labels and milestones handlers
\* first request the repo names from this server, lines 260-261, 278-279.
StartHandler(r) ==
  [r EXCEPT !.pc = IF r.url \in NestedRoutes THEN "nestedSent" ELSE "handling"]

\* A request reaches checkCache.
CheckCacheStep(x, fails) ==
  /\ ~down
  /\ req[x].pc = "sent"
  /\ LET out == CheckCache(overrides, store, req[x].url, fails)
     IN /\ fails => out.consulted
        /\ overrides' = out.overrides
        /\ req' = [req EXCEPT ![x] =
                     IF out.to = "next" THEN StartHandler(@)
                     ELSE IF out.to = "json"
                       THEN [@ EXCEPT !.pc = "responded", !.resp = FromCache(out.data)]
                     ELSE [@ EXCEPT !.pc = "responded", !.resp = ErrorPage]]
  /\ UNCHANGED <<store, gen, nfire, nread, down, others>>

\* The nested request of x's handler reaches checkCache.
NestedCheckCacheStep(x, fails) ==
  /\ ~down
  /\ req[x].pc = "nestedSent"
  /\ LET out == CheckCache(overrides, store, RepoNames, fails)
     IN /\ fails => out.consulted
        /\ overrides' = out.overrides
        /\ req' = [req EXCEPT ![x] =
                     IF out.to = "next" THEN [@ EXCEPT !.pc = "nestedHandling"]
                     ELSE IF out.to = "json"
                       THEN [@ EXCEPT !.pc = "nestedResponded", !.resp = FromCache(out.data)]
                     ELSE [@ EXCEPT !.pc = "nestedResponded", !.resp = ErrorPage]]
  /\ UNCHANGED <<store, gen, nfire, nread, down, others>>

\* The facade operation of a route calls back, lines 233-247, 250-257,
\* 266-273, 284-291: res.json(results), or on an error console.log and no
\* response at all.
HandlerDone(x, ok) ==
  /\ ~down
  /\ req[x].pc = "handling"
  /\ IF ok
       THEN /\ gen < MaxGen
            /\ gen' = gen + 1
            /\ req' = [req EXCEPT ![x] = [@ EXCEPT !.pc = "responded",
                                                   !.resp = FromHandler(gen + 1)]]
       ELSE /\ req' = [req EXCEPT ![x] = Free]
            /\ UNCHANGED gen
  /\ UNCHANGED <<overrides, store, nfire, nread, down, others>>

\* getRepos calls back in the repo-names handler that serves x's nested request.
NestedHandlerDone(x, ok) ==
  /\ ~down
  /\ req[x].pc = "nestedHandling"
  /\ IF ok
       THEN /\ gen < MaxGen
            /\ gen' = gen + 1
            /\ req' = [req EXCEPT ![x] = [@ EXCEPT !.pc = "nestedResponded",
                                                   !.resp = FromHandler(gen + 1)]]
       ELSE /\ req' = [req EXCEPT ![x] = Free]
            /\ UNCHANGED gen
  /\ UNCHANGED <<overrides, store, nfire, nread, down, others>>

\* The nested response arrives, lines 261-275: on 200 the facade operation
\* is called with the parsed names; otherwise nothing happens any more.
NestedDelivered(x) ==
  /\ ~down
  /\ req[x].pc = "nestedResponded"
  /\ req' = [req EXCEPT ![x] =
               IF @.resp.status = 200 THEN [@ EXCEPT !.pc = "handling", !.resp = NoResp]
                                      ELSE Free]
  /\ UNCHANGED <<overrides, store, gen, nfire, nread, down, others>>

\* The response arrives at who sent the request.  updateResource's callback,
\* lines 311-316, writes JSON.parse(body); the error handler's page is no
\* JSON, and JSON.parse throws.
Deliver(x) ==
  /\ ~down
  /\ req[x].pc = "responded"
  /\ req' = [req EXCEPT ![x] = Free]
  /\ IF x \in Resources
       THEN IF req[x].resp.status = 200
              THEN store' = CacheWrite(store, req[x].url, req[x].resp.val) /\ UNCHANGED down
              ELSE down' = TRUE /\ UNCHANGED store
       ELSE UNCHANGED <<store, down>>
  /\ UNCHANGED <<overrides, gen, nfire, nread, others>>

\* The refresh request fails in transport: the error is logged, lines 312-314.
SelfCallFails(u) ==
  /\ ~down
  /\ req[u].pc = "sent"
  /\ req' = [req EXCEPT ![u] = Free]
  /\ UNCHANGED <<overrides, store, gen, nfire, nread, down, others>>

\* The timer of resource u fires: updateResource, lines 309-311.
UpdateResource(u) ==
  /\ ~down
  /\ nfire < MaxFires
  /\ req[u].pc = "free"
  /\ nfire' = nfire + 1
  /\ overrides' = MarkOverride(overrides, u)
  /\ req' = [req EXCEPT ![u] = Sent(u)]
  /\ UNCHANGED <<store, gen, nread, down, others>>

\* An outside reader requests url u.
ReaderRequest(k, u) ==
  /\ ~down
  /\ nread < MaxReads
  /\ req[k].pc = "free"
  /\ nread' = nread + 1
  /\ req' = [req EXCEPT ![k] = Sent(u)]
  /\ UNCHANGED <<overrides, store, gen, nfire, down, others>>

NextSched ==
  \/ \E x \in ReqIds : \E fails \in BOOLEAN : CheckCacheStep(x, fails)
  \/ \E x \in ReqIds : \E fails \in BOOLEAN : NestedCheckCacheStep(x, fails)
  \/ \E x \in ReqIds : \E ok \in BOOLEAN : HandlerDone(x, ok)
  \/ \E x \in ReqIds : \E ok \in BOOLEAN : NestedHandlerDone(x, ok)
  \/ \E x \in ReqIds : NestedDelivered(x)
  \/ \E x \in ReqIds : Deliver(x)
  \/ \E u \in Resources : SelfCallFails(u)
  \/ \E u \in Resources : UpdateResource(u)
  \/ \E k \in Readers : \E u \in Resources : ReaderRequest(k, u)

SpecSched == InitFetch /\ [][NextSched]_vars

(***************************************************************************)
(* SpecTeam: one call of teamMembers against an arbitrary upstream, over   *)
(* the Response Cache.                                                     *)
(***************************************************************************)
\* teamMembers(team, callback)
TeamMembers(name) ==
  /\ ~team.called
  /\ LET w == TeamJSON([t |-> [team EXCEPT !.called = TRUE, !.name = name], c |-> cache],
                       TeamsUrl, TeamsK, clock)
     IN team' = w.t /\ cache' = w.c
  /\ UNCHANGED <<fetch, clock, json, ncalls, nreq, nuse, used, ev, fanVars, schedVars,
                 view, post, sort>>

\* The upstream answers a request of the call, lines 145-150.
TeamResponse(p, r) ==
  /\ ~team.crashed
  /\ p \in team.pending
  /\ LET w0 == [t |-> [team EXCEPT !.pending = @ \ {p}], c |-> cache]
         w == IF r.err # Null
                THEN TeamCallback(w0, p.k, r.err, Undefined, clock)
                ELSE TeamCallback([w0 EXCEPT !.c = LruSet(cache, p.url, r.body, clock)],
                                  p.k, r.err, r.body, clock)
     IN team' = w.t /\ cache' = w.c
  /\ UNCHANGED <<fetch, clock, json, ncalls, nreq, nuse, used, ev, fanVars, schedVars,
                 view, post, sort>>

NextTeam ==
  \/ \E name \in TeamNames : TeamMembers(name)
  \/ \E p \in team.pending : \E r \in TeamResponses(p.k) : TeamResponse(p, r)

SpecTeam == InitFetch /\ [][NextTeam]_vars

(***************************************************************************)
(* SpecViews: one call of thisMilestone, nextMilestone or                  *)
(* upcomingMilestones against an arbitrary upstream, over the Response     *)
(* Cache, while time passes.                                               *)
(***************************************************************************)
\* thisMilestone(callback), nextMilestone(callback),
\* upcomingMilestones(callback): getMilestones.
ViewCall(op) ==
  /\ view.op = ""
  /\ LET w == ViewJSON([v |-> [NewView EXCEPT !.op = op], c |-> cache],
                       MilestonesUrl, MilestonesK, clock)
     IN view' = w.v /\ cache' = w.c
  /\ UNCHANGED <<fetch, clock, json, ncalls, nreq, nuse, used, ev, fanVars, schedVars,
                 team, post, sort>>

\* The upstream answers a request of the call, lines 145-150.
ViewResponse(p, r) ==
  /\ ~view.crashed
  /\ p \in view.pending
  /\ LET w0 == [v |-> [view EXCEPT !.pending = @ \ {p},
                                   !.answers = @ \cup {[k |-> p.k, url |-> p.url, r |-> r]}],
                c |-> cache]
         w == IF r.err # Null
                THEN ViewCallback(w0, p.k, r.err, Undefined, clock)
                ELSE ViewCallback([w0 EXCEPT !.c = LruSet(cache, p.url, r.body, clock)],
                                  p.k, r.err, r.body, clock)
     IN view' = w.v /\ cache' = w.c
  /\ UNCHANGED <<fetch, clock, json, ncalls, nreq, nuse, used, ev, fanVars, schedVars,
                 team, post, sort>>

\* postIssueWithToken(token, body, callback)
PostIssue(body) ==
  /\ post.calls < MaxPosts
  /\ LET w == PostIssueWithToken([p |-> post, c |-> cache], body)
     IN post' = w.p /\ cache' = w.c
  /\ UNCHANGED <<fetch, clock, json, ncalls, nreq, nuse, used, ev, fanVars, schedVars,
                 team, view, sort>>

\* The upstream answers a POST, lines 195-197: callback(err, body).
PostResponse(i, r) ==
  /\ i \in post.pending
  /\ post' = [post EXCEPT !.pending = @ \ {i},
                          !.out = Append(@, [err |-> r.err, val |-> r.body])]
  /\ UNCHANGED <<fetch, cacheVars, fanVars, schedVars, team, view, sort>>

NextViews ==
  \/ \E op \in ViewOps : ViewCall(op)
  \/ \E p \in view.pending : \E r \in ViewResponses(p.k) : ViewResponse(p, r)
  \/ Tick

SpecViews == InitFetch /\ [][NextViews]_vars

(***************************************************************************)
(* SpecPost: calls of postIssueWithToken beside the githubJSON calls of    *)
(* one caller.                                                             *)
(***************************************************************************)
NextPost ==
  \/ \E body \in IssueForms : PostIssue(body)
  \/ \E i \in post.pending : \E r \in PostResponses : PostResponse(i, r)
  \/ \E f \in Fragments : GithubJSON(1, f)
  \/ \E r \in JsonResponses : JsonResponse(1, r)

SpecPost == InitFetch /\ [][NextPost]_vars

(***************************************************************************)
(* Claims about the paginated fetch, checked under SpecFetch.              *)
(***************************************************************************)
RECURSIVE FlattenPages(_)
FlattenPages(s) ==
  IF s = <<>> THEN <<>> ELSE Head(s).body.data.items \o FlattenPages(Tail(s))

IsNonEmptyPage(r) ==
  r.error = Null /\ r.body.text = "json" /\ r.body.data.kind = "array"
    /\ Len(r.body.data.items) > 0

\* Pages 0..n-1 (n >= 1) were non-empty arrays and page n an empty array.
PagedUpstream(s) ==
  /\ Len(s) >= 2
  /\ \A i \in 1..(Len(s) - 1) : IsNonEmptyPage(s[i])
  /\ s[Len(s)] = Answer(Arr(<<>>))

\* C1: against an upstream that answers pages 0..n-1 with non-empty arrays
\* and page n with an empty array, the fetch requests the pages 0,1,..,n in
\* increasing order and one at a time, and invokes its callback exactly once,
\* with no error and the concatenation of the pages in page order.
C1_PaginatedConcat ==
  /\ (\A i \in 1..Len(fetch.served) : IsNonEmptyPage(fetch.served[i]))
       => /\ fetch.requests = [i \in 1..Len(fetch.requests) |-> i - 1]
          /\ Len(fetch.requests) <= Len(fetch.served) + 1
          /\ Cardinality(fetch.pending) <= 1
          /\ fetch.cb = <<>>
  /\ PagedUpstream(fetch.served)
       => /\ fetch.cb = <<[err |-> Null,
                           val |-> Arr(FlattenPages(SubSeq(fetch.served, 1,
                                         Len(fetch.served) - 1)))]>>
          /\ fetch.requests = [i \in 1..Len(fetch.served) |-> i - 1]
          /\ fetch.pending = {}
          /\ ~fetch.crashed

C1_Witness ==
  /\ PagedUpstream(fetch.served)
  /\ Len(fetch.served) = 3
  /\ fetch.served[1] # fetch.served[2]
  /\ Len(fetch.cb) = 1

\* C2: a transport error on any page request aborts the fetch: the callback
\* is invoked exactly once, with that error and no collection, and no further
\* page is requested.
C2_TransportErrorSurfaced ==
  \A i \in 1..Len(fetch.served) :
    fetch.served[i] = Failed
      => /\ i = Len(fetch.served)
         /\ fetch.cb = <<[err |-> TransportError, val |-> Undefined]>>
         /\ fetch.pending = {}

IsErrorPayload(r) ==
  r.error = Null /\ r.body.text = "json" /\ TruthyMessage(r.body.data)

\* C3: whenever the upstream answers a page with a JSON body carrying an
\* error indicator, the callback receives an error and never a success value.
C3_ErrorPayloadIsError ==
  \A i \in 1..Len(fetch.served) :
    IsErrorPayload(fetch.served[i])
      => /\ Len(fetch.cb) = 1
         /\ fetch.cb[1].err # Null
         /\ fetch.cb[1].val = Undefined

\* C4: when page 0 yields a non-array payload, exactly one page request is
\* issued and the callback is invoked once: with the payload as the error and
\* no value if it has a message field, with no error and the payload verbatim
\* as the value otherwise.
C4_FirstPageObject ==
  (/\ Len(fetch.served) >= 1
   /\ fetch.served[1].error = Null
   /\ fetch.served[1].body.text = "json"
   /\ fetch.served[1].body.data.kind = "object")
    => LET d == fetch.served[1].body.data
       IN /\ fetch.requests = <<0>>
          /\ fetch.pending = {}
          /\ fetch.cb = IF d.message # ""
                          THEN <<[err |-> d, val |-> Undefined]>>
                          ELSE <<[err |-> Null, val |-> d]>>

C4_Witness ==
  /\ fetch.served = <<Answer(Obj("Not Found", ""))>>
  /\ fetch.cb = <<[err |-> Obj("Not Found", ""), val |-> Undefined]>>

(***************************************************************************)
(* Claims about the Response Cache.                                        *)
(***************************************************************************)
EntryOf(u) == cache[IndexOf(cache, u)]
\* The cache holds an entry for u that was set at most maxAge ago.
HoldsFresh(u) == u \in Keys(cache) /\ clock - EntryOf(u).now <= maxAge
\* This step is the start of a githubJSON / getUserInfo call for u.
CallOf(u) == ncalls' = ncalls + 1 /\ ev'.url = u
\* This step is the upstream's answer to caller c.
AnswerTo(c) == json[c].pc = "waiting" /\ json'[c].pc = "idle"
\* The call that starts in this step misses and issues an upstream request.
Misses(u) ==
  /\ ev'.type = "miss"
  /\ nreq' = nreq + 1
  /\ \E c \in Callers : json[c].pc = "idle" /\ json'[c].pc = "waiting" /\ json'[c].url = u
\* The call that starts in this step returns v from the cache.
HitsWith(v) ==
  /\ ev'.type = "hit" /\ ev'.err = Null /\ ev'.val = v
  /\ nreq' = nreq
  /\ json' = json

\* C5 (as claimed): every read operation goes through the Response Cache;
\* in particular the result of a successful fetch is stored under its
\* resource path, also for the paginated fetch under the fan-out operations.
C5_EveryReadCached ==
  /\ ev.type = "value" => ev.url \in Keys(cache)
  /\ (Len(fetch.cb) = 1 /\ fetch.cb[1].err = Null) => RequestUrl \in Keys(cache)

\* C5 (amended): every githubJSON-based read and getUserInfo looks its url up
\* in the Response Cache: a hit returns the cached value without an upstream
\* request; a miss issues one upstream request, and an answer without a
\* transport error is stored under that url and returned.  The paginated
\* fetch (githubRequest, under getRepos, getUsersForOrgs,
\* getMilestonesForRepos and getLabelsForRepos) never reads or writes the
\* Response Cache: its result is not stored and each call requests page 0.
C5_JsonReadsCached ==
  [][/\ \A u \in Urls : CallOf(u) =>
          IF HoldsFresh(u) THEN HitsWith(EntryOf(u).value) ELSE Misses(u)
     /\ \A c \in Callers : \A r \in JsonResponses :
          (AnswerTo(c) /\ ev'.err = r.err /\ ev'.val = r.body /\ r.err = Null) =>
             /\ json[c].url \in Keys(cache')
             /\ cache'[IndexOf(cache', json[c].url)].value = r.body
             /\ cache'[IndexOf(cache', json[c].url)].now = clock
             /\ ev'.type = "value"
     /\ fetch' # fetch =>
          /\ cache' = cache /\ nuse' = nuse
          /\ RequestUrl \notin Keys(cache')
          /\ (fetch = NewFetch => fetch'.requests = <<0>>)
    ]_vars

C5_Witness ==
  /\ ev.type = "hit"
  /\ Len(fetch.cb) = 1 /\ fetch.cb[1].err = Null /\ Len(fetch.cb[1].val.items) > 0
  /\ cache # <<>>

\* C6: a call for url p that starts while the cache holds an entry for p set
\* at most maxAge (5 minutes) ago returns exactly the stored value and issues
\* no upstream request; a call that starts after maxAge has elapsed since the
\* entry was set is not answered from the cache and issues a new upstream
\* request.
C6_CacheTTL ==
  [][\A u \in Urls : (CallOf(u) /\ u \in Keys(cache)) =>
        IF clock - EntryOf(u).now <= maxAge
          THEN HitsWith(EntryOf(u).value)
          ELSE Misses(u) /\ u \notin Keys(cache')
    ]_vars

\* A call missed at an entry that was set and never evicted: it had expired.
C6_Witness ==
  /\ ev.type = "miss"
  /\ used[ev.url] > 0
  /\ \A w \in Urls \ {ev.url} : used[w] = 0
  /\ clock > maxAge

\* C7: the cache never holds more than max entries; storing a new key in a
\* full cache evicts exactly one entry, the least recently used one (a hit is
\* a use); a later lookup of the evicted key misses and issues an upstream
\* request.
C7_Capacity ==
  /\ Len(cache) <= max
  /\ [][/\ Len(cache') <= max
        /\ (Keys(cache') \ Keys(cache) # {} /\ Len(cache) = max) =>
             \E k \in Keys(cache) :
               /\ Keys(cache) \ Keys(cache') = {k}
               /\ \A j \in Keys(cache) \ {k} : used[k] < used[j]
        /\ \A u \in Urls : (CallOf(u) /\ u \notin Keys(cache)) => Misses(u)
       ]_vars

\* A lookup of an evicted key: it was stored, nothing has expired, it misses.
C7_Witness ==
  /\ ev.type = "miss"
  /\ used[ev.url] > 0
  /\ ev.url \notin Keys(cache)
  /\ Len(cache) = max
  /\ clock = 0

(***************************************************************************)
(* Claims about the fan-out operations, checked under SpecFanout.          *)
(***************************************************************************)
\* Member i's fetch ended in an error.
MemberFailed(i) == Len(members[i].cb) > 0 /\ Truthy(members[i].cb[1].err)

\* C8: if at least one member fetch of a fan-out operation ends in an error,
\* the operation's callback receives an error and no list at all: neither
\* the results of the members that succeeded nor an empty list.
C8_FailFastNoList ==
  (\E i \in 1..MaxTargets : MemberFailed(i))
    => /\ Len(fan.out) = 1
       /\ Truthy(fan.out[1].err)
       /\ fan.out[1].val = Undefined

(***************************************************************************)
(* Claims about checkCache and the cache primer, checked under SpecSched.  *)
(***************************************************************************)
\* C9: the cache primer's own refresh request for a path is never answered
\* from the externally-visible cache: every response it gets, and so every
\* value it writes, was computed by the path's route handler after the
\* refresh was started.
C9_OwnRefreshRecomputed ==
  \A u \in Resources :
    (req[u].pc = "responded" /\ req[u].resp.status = 200)
      => req[u].resp.src = "handler"

\* What one run of checkCache for url u on behalf of request x does; the
\* handler starts with x at a pc in H, the response leaves with x at pc R.
ReadOf(x, u, H, R) ==
  /\ \A w \in Resources \ {u} : overrides'[w] = overrides[w]
  /\ ~overrides'[u]
  /\ IF overrides[u]
       THEN req'[x].pc \in H
       ELSE \/ req'[x].pc = R /\ req'[x].resp = ErrorPage
            \/ IF store[u] # 0
                 THEN req'[x].pc = R /\ req'[x].resp = FromCache(store[u])
                 ELSE req'[x].pc \in H

\* C10: the bypass flag of a path is set by the start of a refresh only; the
\* very next read of the path through checkCache, the primer's own or any
\* other, skips the externally-visible cache, goes to the route handler and
\* clears the flag; every later read, until the next refresh starts,
\* consults the cache; a read leaves the flags of all other paths unchanged.
C10_BypassOneShot ==
  [][/\ \A x \in ReqIds :
          /\ (req[x].pc = "sent" /\ req'[x].pc \notin {"sent", "free"})
               => ReadOf(x, req[x].url, {"handling", "nestedSent"}, "responded")
          /\ (req[x].pc = "nestedSent" /\ req'[x].pc \notin {"nestedSent", "free"})
               => ReadOf(x, RepoNames, {"nestedHandling"}, "nestedResponded")
     /\ \A u \in Resources :
          (overrides'[u] /\ ~overrides[u])
            => nfire' = nfire + 1 /\ req[u].pc = "free" /\ req'[u].pc = "sent"
    ]_vars

\* A reader, not the primer, took the flag of a refresh that is under way:
\* it is at the handler although the cache holds data for its path.
C10_Witness ==
  /\ nfire = 1
  /\ req[Users].pc = "sent"
  /\ ~overrides[Users]
  /\ store[Users] # 0
  /\ req["reader"].pc = "handling"
  /\ req["reader"].url = Users

\* The refresh request of u has passed checkCache and is not yet delivered.
PastCheckCache(u) ==
  req[u].pc \in {"nestedSent", "nestedHandling", "nestedResponded", "handling", "responded"}

\* Request x passes checkCache for url u in this step (x's own url from
\* "sent", the repo names from "nestedSent").
PassesCheckCache(x, u) ==
  \/ req[x].pc = "sent" /\ req[x].url = u /\ req'[x].pc \notin {"sent", "free"}
  \/ req[x].pc = "nestedSent" /\ u = RepoNames /\ req'[x].pc \notin {"nestedSent", "free"}

\* Request x is answered in this step without its handler: by resp.
AnsweredWith(x, resp) ==
  /\ req'[x].pc = IF req[x].pc = "sent" THEN "responded" ELSE "nestedResponded"
  /\ req'[x].resp = resp

C12_FailedRefreshKeepsEntry ==
  [][\A u \in Resources :
       /\ ((req[u].pc = "sent" \/ (req[u].pc = "responded" /\ req[u].resp.status # 200))
             /\ req'[u].pc = "free")
            => store' = store /\ ~down'
       /\ store'[u] # store[u] => req[u].pc = "responded" /\ req[u].resp.status = 200
    ]_vars

(***************************************************************************)
(* Claims about the deduplicating fan-out operations (SpecFanout) and the  *)
(* contents of the Response Cache (SpecCache).                             *)
(***************************************************************************)
\* The identities of the merged collection r, and where one occurs first.
Identities(r) == {r[i].name : i \in 1..Len(r)}
FirstIndex(r, id) == CHOOSE i \in 1..Len(r) : r[i].name = id /\ \A j \in 1..(i - 1) : r[j].name # id

\* C14: when getUsersForOrgs, getMilestonesForRepos or getLabelsForRepos
\* succeeds, its output holds every identity of the merged collection, each
\* exactly once, and nothing else, in the order of the identities' first
\* occurrences in the merged collection.
C14_Dedup ==
  (fan.op \in {"getUsersForOrgs", "getMilestonesForRepos", "getLabelsForRepos"}
     /\ Len(fan.out) = 1 /\ ~Truthy(fan.out[1].err))
    => LET ids == fan.out[1].val.items
       IN /\ fan.out[1].val.kind = "array"
          /\ {ids[i] : i \in 1..Len(ids)} = Identities(fan.r)
          /\ \A i, j \in 1..Len(ids) : ids[i] = ids[j] => i = j
          /\ \A i, j \in 1..Len(ids) :
               i < j => FirstIndex(fan.r, ids[i]) < FirstIndex(fan.r, ids[j])

\* A merged collection b, a, b: the second b is not adjacent to the first.
C14_Witness ==
  /\ fan.op = "getUsersForOrgs"
  /\ Len(fan.r) = 3
  /\ fan.r[1].name = "b" /\ fan.r[2].name = "a" /\ fan.r[3].name = "b"
  /\ fan.out = <<[err |-> Undefined, val |-> Arr(<<"b", "a">>)]>>

\* C20: a Response Cache entry is created or overwritten only by a
\* successful fetch: no entry ever holds an upstream body that carries an
\* error indicator, and no call is answered with one from the cache.
C20_OnlySuccessCached ==
  /\ \A i \in 1..Len(cache) : ~TruthyMessage(cache[i].value)
  /\ ev.type = "hit" => ~TruthyMessage(ev.val)

(***************************************************************************)
(* Claims about sortIssuesByPriority, checked under SpecSort.              *)
(***************************************************************************)
NamedP1(issue) == \E l \in 1..Len(issue.labels.items) : issue.labels.items[l] = "p1"

\* The issues of s with NamedP1 = named, in the order of s.
RECURSIVE Select(_, _)
Select(s, named) ==
  IF s = <<>> THEN <<>>
  ELSE IF NamedP1(Head(s)) = named THEN <<Head(s)>> \o Select(Tail(s), named)
  ELSE Select(Tail(s), named)

\* C17: sortIssuesByPriority puts every issue of its argument in exactly one
\* of the two output lists: in p1 if and only if one of its labels is named
\* exactly 'p1', in p2 otherwise; each list keeps the order of the argument.
C17_PriorityPartition ==
  sort.returned =>
    /\ sort.result.p1 = Select(sort.issues, TRUE)
    /\ sort.result.p2 = Select(sort.issues, FALSE)

\* [A(p1), B(), C(p1, other)] gives p1 = [A, C] and p2 = [B].
C17_Witness ==
  /\ sort.returned
  /\ sort.issues = <<[id |-> 1, labels |-> Arr(<<"p1">>)], [id |-> 2, labels |-> Arr(<<>>)],
                     [id |-> 3, labels |-> Arr(<<"p1", "other">>)]>>
  /\ sort.result = [p1 |-> <<[id |-> 1, labels |-> Arr(<<"p1">>)],
                            [id |-> 3, labels |-> Arr(<<"p1", "other">>)]>>,
                    p2 |-> <<[id |-> 2, labels |-> Arr(<<>>)]>>]

(***************************************************************************)
(* Claims about teamMembers, checked under SpecTeam.                       *)
(***************************************************************************)
\* C13: the operation resolves: no exception escapes, the callback is never
\* invoked twice, and once every request of the call has been answered the
\* callback has been invoked exactly once.
C13_AlwaysResolves ==
  /\ ~team.crashed
  /\ Len(team.out) <= 1
  /\ (team.called /\ team.pending = {}) => Len(team.out) = 1

(***************************************************************************)
(* Claims about the milestone operations, checked under SpecViews.         *)
(***************************************************************************)
\* getMilestones handed a non-empty listing to the operation op.
GotListing(op) ==
  view.op = op /\ view.milestones.kind = "array" /\ view.milestones.items # <<>>
\* The positions of the listing whose due date was in the future then.
Future == {i \in 1..Len(view.milestones.items) :
             DateOf(view.milestones.items[i].due_on) > view.at}
First(S) == CHOOSE i \in S : \A j \in S : i <= j

\* C15: for every non-empty listing, thisMilestone fetches the issues of
\* exactly one milestone: the first of the listing whose due date is in the
\* future, and the last of the listing if none is.
C15_ThisMilestone ==
  GotListing("thisMilestone") =>
    LET L == view.milestones.items
    IN view.fetched = <<L[IF Future = {} THEN Len(L) ELSE First(Future)].number>>

\* The listing [past, future1, future2]: the issues of future1 were fetched.
C15_Witness ==
  /\ GotListing("thisMilestone")
  /\ Len(view.milestones.items) = 3
  /\ Future = {2, 3}
  /\ view.fetched = <<view.milestones.items[2].number>>
  /\ Len(view.out) = 1 /\ view.out[1].err = Null

\* C16: for every non-empty listing, nextMilestone fetches the issues of
\* exactly one milestone of the listing; if position i is the first with a
\* due date in the future, the one right after it, and the last of the
\* listing if i is the last position.
C16_NextMilestone ==
  GotListing("nextMilestone") =>
    LET L == view.milestones.items
    IN /\ Len(view.fetched) = 1
       /\ \E i \in 1..Len(L) : L[i].number = view.fetched[1]
       /\ Future # {} =>
            view.fetched[1] =
              L[IF First(Future) + 1 <= Len(L) THEN First(Future) + 1 ELSE Len(L)].number

\* The listing [past, future1, future2]: the issues of future2 were fetched.
C16_Witness ==
  /\ GotListing("nextMilestone")
  /\ Len(view.milestones.items) = 3
  /\ Future = {2, 3}
  /\ view.fetched = <<view.milestones.items[3].number>>
  /\ Len(view.out) = 1 /\ view.out[1].err = Null

\* An issue-set fetch failed: in transport, or with an error payload.
IssuesFailed ==
  \E a \in view.answers :
    a.k.kind = "issues" /\ (a.r.err # Null \/ TruthyMessage(a.r.body))
\* What the upstream answered for the issues of milestone number id.
IssuesAnswered(id) == (CHOOSE a \in view.answers : a.url = IssuesUrl(id)).r.body

\* C18: once every request of upcomingMilestones is answered, the callback
\* was invoked once: if an issue-set fetch failed, with an error; otherwise
\* with the first min(sliceEnd, n) milestones of the listing, in the order
\* of the listing, each with the issues answered for its own number.
C18_UpcomingView ==
  (GotListing("upcomingMilestones") /\ view.pending = {}) =>
    LET set == slice(view.milestones.items)
    IN /\ Len(view.out) = 1
       /\ IF IssuesFailed THEN Truthy(view.out[1].err)
          ELSE /\ ~Truthy(view.out[1].err)
               /\ view.out[1].val =
                    Arr([i \in 1..Len(set) |->
                          [number |-> set[i].number, due_on |-> set[i].due_on,
                           issues |-> IssuesAnswered(set[i].number)]])

(***************************************************************************)
(* Claims about postIssueWithToken, checked under SpecPost.                *)
(***************************************************************************)
\* C19: every call of postIssueWithToken issues exactly one POST request
\* with its body, whether or not the same body was posted before; neither
\* the call nor the answer reads or changes the Response Cache.
C19_PostBypassesCache ==
  [][/\ post'.calls = post.calls + 1 =>
          /\ Len(post'.requests) = Len(post.requests) + 1
          /\ post'.pending = post.pending \cup {Len(post'.requests)}
     /\ post' # post => cache' = cache /\ ev' = ev /\ nreq' = nreq /\ nuse' = nuse
    ]_vars

\* The same body was posted twice, both posts were answered, while the
\* cache holds entries.
C19_Witness ==
  /\ post.requests = <<"form1", "form1">>
  /\ Len(post.out) = 2
  /\ Len(cache) = max

(***************************************************************************)
(* Claims about the fetched records held by the Response Cache, checked    *)
(* under SpecViews.                                                        *)
(***************************************************************************)
\* What the upstream answered to the call's request of the milestones path.
MilestonesAnswered ==
  {a.r.body : a \in {b \in view.answers : b.k.kind = "milestones" /\ b.r.err = Null}}

\* C21: no operation changes a value stored in the Response Cache: whenever
\* the cache holds a value for the milestones path, also after
\* upcomingMilestones ran, it is exactly the listing as the upstream
\* answered it, no milestone of it with an issues field.
C21_CachedSnapshotUnchanged ==
  MilestonesUrl \in Keys(cache) =>
    /\ EntryOf(MilestonesUrl).value \in MilestonesAnswered
    /\ EntryOf(MilestonesUrl).value.kind = "array" =>
         \A i \in 1..Len(EntryOf(MilestonesUrl).value.items) :
           EntryOf(MilestonesUrl).value.items[i].issues = Undefined

(***************************************************************************)
(* Claims about records with missing fields, checked under SpecSort.       *)
(***************************************************************************)
\* C22: sortIssuesByPriority never throws on an issue without a labels
\* field or with a label without a name: it goes on with the remaining
\* issues and returns, every such issue in p2 unless another of its labels
\* is named 'p1', and every issue of the argument in one of the two lists.
C22_MissingFieldsTolerated ==
  /\ ~sort.threw
  /\ sort.returned =>
       /\ Len(sort.result.p1) + Len(sort.result.p2) = Len(sort.issues)
       /\ \A i \in 1..Len(sort.issues) :
            ~NamedP1(sort.issues[i]) =>
              \E j \in 1..Len(sort.result.p2) : sort.result.p2[j] = sort.issues[i]

(***************************************************************************)
(* Claims about the end of the paginated fetch, checked under SpecFetch.   *)
(***************************************************************************)
\* The upstream answered some page with something other than a non-empty
\* array.
AnsweredOtherwise ==
  \E i \in 1..Len(fetch.served) : ~IsNonEmptyPage(fetch.served[i])

\* C23: the fetch has no page ceiling, and it invokes its callback if and
\* only if the upstream answered some page with something other than a
\* non-empty array: the callback is invoked by the handler of that answer,
\* and as long as every answer was a non-empty array, however many there
\* were, the callback is not invoked and the next page, one past the last,
\* is requested.
C23_PaginationTermination ==
  /\ fetch.cb # <<>> <=> AnsweredOtherwise
  /\ (fetch.requests # <<>> /\ ~AnsweredOtherwise)
       => /\ fetch.requests = [i \in 1..(Len(fetch.served) + 1) |-> i - 1]
          /\ fetch.pending = {Len(fetch.served)}

====
